---- MODULE Spec2Model ----
(***************************************************************************)
(* A model of ltspice_mlp.py: the digital potentiometer (DigitalPot), the  *)
(* chip-grouping factory (DigitalPotFactory), one circuit layer            *)
(* (MLP_Circuit_Layer) and the simulate/parse/retry loop of                *)
(* MLP_Circuit.think.                                                      *)
(*                                                                         *)
(* Numbers.  The source computes in floating point; the model computes in  *)
(* exact integers:                                                         *)
(*   - a weight and a max_weight are integers (multiples of one weight     *)
(*     quantum), so weight / max_weight is the rational weight/max_weight; *)
(*   - a resistance r_neg or r_pos is stored as its numerator over         *)
(*     tap_count, i.e. in units of 1/tap_count ohm (the value the source   *)
(*     holds times tap_count).  With tap_count = 128 and integer chip      *)
(*     resistances the source's floating-point values are exact, so the    *)
(*     two agree;                                                          *)
(*   - a voltage is an integer number of tenths of a volt.                 *)
(* Arrays are functions over 0..n-1, as the source indexes them.           *)
(***************************************************************************)
EXTENDS Integers, Sequences, FiniteSets, TLC

VARIABLES
    pot,                  \* SpecPot: one DigitalPot
    weight,               \* SpecPot: the argument of the last set_weight
    prev,                 \* SpecPot: weight and resistances before the last set_weight
    digital_pot_factory,  \* MLP_Circuit.digital_pot_factory
    hardware_layers,      \* MLP_Circuit.hardware_layers
    created,              \* history: one record per pot the factory created, in order
    trained,              \* number of weight changes made by the network's owner
    fault,                \* the exception that ended the program, or "none"
    pc,                   \* position inside MLP_Circuit.think
    attempts,             \* think: local attempts
    success,              \* think: local success
    outputs,              \* think: local outputs
    returned,             \* the value think returned
    log,                  \* content of the result file MLP_netlist.log
    history,              \* history: one record per run_simulation call of this think
    input_sources,        \* MLP_Circuit.input_sources
    netlist               \* content of the netlist file MLP_netlist.net

vars == <<pot, weight, prev, digital_pot_factory, hardware_layers, created,
          trained, fault, pc, attempts, success, outputs, returned, log,
          history, input_sources, netlist>>

potVars == <<pot, weight, prev>>
circuitVars == <<digital_pot_factory, hardware_layers, created, trained>>
thinkVars == <<pc, attempts, success, outputs, returned, log, history,
               input_sources, netlist>>

----------------------------------------------------------------------------
(* Program constants (module globals of ltspice_mlp.py).                   *)

pot_tap_count == 128

pots_per_chip == 4

r_total_ohms == 5000

\* _pot_tolerance = 0.20, in percent
pot_tolerance_pct == 20

\* _v_in_max = 1.5 and _v_in_min = -1.5, in tenths of a volt
v_in_max == 15

v_in_min == -15

\* attempts = 5 in think
think_attempts == 5

----------------------------------------------------------------------------
(* Bounds of the model.                                                    *)

\* weights range over -MaxAbsWeight..MaxAbsWeight
MaxAbsWeight == 7

\* max_weight of a layer or pot
MaxWeightChoices == {3, 5}

Weights == (-MaxAbsWeight)..MaxAbsWeight

\* inputs_per_neuron and neuron_count of a layer range over 1..MaxDim
MaxDim == 4

\* a circuit has at most MaxLayers layers and MaxPots pots
MaxLayers == 2

MaxPots == 9

\* the network's owner changes at most MaxTrainSteps weights
MaxTrainSteps == 1

\* max_weight of a network layer, and the weights its matrix holds
LayerMaxWeight == 5

LayerWeights == {-2, 3}

\* the weight every entry of a layer's matrix holds when the circuit is constructed
InitialWeights == {-2}

\* pots_per_chip of the factories the model builds
PotsPerChipChoices == {3, pots_per_chip}

\* SpecThink: the networks think is called on, as <<inputs of layer 0, neuron
\* counts of the layers>>; the voltages a result log reports, in tenths of a volt;
\* the normalized inputs, in tenths
ThinkShapes == {<<1, <<1>>>>, <<2, <<2>>>>, <<2, <<2, 1>>>>, <<1, <<1, 2>>>>,
                <<2, <<2, 2>>>>}

LogVoltages == {-15, 6}

InputValues == {-10, 10}

\* Python's None, and a value that is not None
None == [none |-> TRUE, data |-> <<>>]

Some(d) == [none |-> FALSE, data |-> d]

----------------------------------------------------------------------------
(* DigitalPot                                                              *)

\* int(x) of Python for the rational x = num/den, den > 0: truncation toward zero
TruncDiv(num, den) == IF num >= 0 THEN num \div den ELSE -((-num) \div den)

Min(a, b) == IF a <= b THEN a ELSE b

Max(a, b) == IF a >= b THEN a ELSE b

\* (weight / max_weight + 1) / 2 * tap_count as the fraction <<num, den>>
ScaledPosition(p, w) == <<(w + p.max_weight) * p.tap_count, 2 * p.max_weight>>

\* the nearest integer to num/den (ties upward), den > 0
RoundDiv(num, den) == (2 * num + den) \div (2 * den)

\* set_weight with the scaled position rounded to the nearest tap
set_weight_round(p, w) ==
    LET s == ScaledPosition(p, w)
        wiper_position == Min(p.tap_count - 1, Max(1, RoundDiv(s[1], s[2])))
    IN  [p EXCEPT !.wiper_position = wiper_position,
                  !.r_neg = wiper_position * p.r_total_ohms,
                  !.r_pos = p.tap_count * p.r_total_ohms - wiper_position * p.r_total_ohms]

\* set_weight without the clamp to [1, tap_count-1]
set_weight_noclamp(p, w) ==
    LET s == ScaledPosition(p, w)
        wiper_position == TruncDiv(s[1], s[2])
    IN  [p EXCEPT !.wiper_position = wiper_position,
                  !.r_neg = wiper_position * p.r_total_ohms,
                  !.r_pos = p.tap_count * p.r_total_ohms - wiper_position * p.r_total_ohms]

\* set_weight with the two branches exchanged
set_weight_swapped(p, w) ==
    LET s == ScaledPosition(p, w)
        wiper_position == Min(p.tap_count - 1, Max(1, TruncDiv(s[1], s[2])))
    IN  [p EXCEPT !.wiper_position = wiper_position,
                  !.r_pos = wiper_position * p.r_total_ohms,
                  !.r_neg = p.tap_count * p.r_total_ohms - wiper_position * p.r_total_ohms]

\* DigitalPot.set_weight: wiper_position is a local of the source, kept in the
\* record so that it can be observed
set_weight(p, w) ==
    LET s == ScaledPosition(p, w)
        wiper_position == Min(p.tap_count - 1, Max(1, TruncDiv(s[1], s[2])))
    IN  [p EXCEPT !.wiper_position = wiper_position,
                  !.r_neg = wiper_position * p.r_total_ohms,
                  !.r_pos = p.tap_count * p.r_total_ohms - wiper_position * p.r_total_ohms]

\* DigitalPot.__init__: stores the three attributes, then set_weight(0)
DigitalPot(r_total, tap_count, max_weight) ==
    set_weight([r_total_ohms |-> r_total, tap_count |-> tap_count,
                max_weight |-> max_weight, wiper_position |-> 0,
                r_neg |-> 0, r_pos |-> 0], 0)

----------------------------------------------------------------------------
(* DigitalPotFactory                                                       *)

\* the bounds of randrange in DigitalPotFactory.pot: int((1.0 - tolerance) * r_total_ohms)
\* and int((1.0 + tolerance) * r_total_ohms); randrange excludes the upper one
DrawLow == ((100 - pot_tolerance_pct) * r_total_ohms) \div 100

DrawHigh == ((100 + pot_tolerance_pct) * r_total_ohms) \div 100

\* the values of randrange(DrawLow, DrawHigh) the model draws
Draws == {DrawLow, DrawHigh - 1}

PotDraws == {DrawLow, r_total_ohms, DrawHigh - 1}

\* DigitalPotFactory.__init__
DigitalPotFactory(r_total, tap_count, k, tolerance_pct) ==
    [r_total_ohms |-> r_total, tap_count |-> tap_count,
     tolerance_pct |-> tolerance_pct, pots_per_chip |-> k,
     pot_counter |-> 1, chip_resistance |-> r_total]

\* pot() drawing a new chip resistance at the last slot instead of the first
factory_pot_lastslot(f, max_weight, draw) ==
    LET drew == f.pot_counter = f.pots_per_chip
        chip == IF drew THEN draw ELSE f.chip_resistance
        counter == IF f.pot_counter < f.pots_per_chip THEN f.pot_counter + 1 ELSE 1
    IN  [factory |-> [f EXCEPT !.chip_resistance = chip, !.pot_counter = counter],
         pot |-> DigitalPot(chip, f.tap_count, max_weight),
         drew |-> drew]

\* DigitalPotFactory.pot: draw is the value randrange returns if it is called
factory_pot(f, max_weight, draw) ==
    LET drew == f.pot_counter = 1
        chip == IF drew THEN draw ELSE f.chip_resistance
        counter == IF f.pot_counter < f.pots_per_chip THEN f.pot_counter + 1 ELSE 1
    IN  [factory |-> [f EXCEPT !.chip_resistance = chip, !.pot_counter = counter],
         pot |-> DigitalPot(chip, f.tap_count, max_weight),
         drew |-> drew]

\* the number of randrange calls that n calls of pot() make, starting from factory f
NeededDraws(f, n) ==
    Cardinality({k \in 0..(n - 1) : (f.pot_counter - 1 + k) % f.pots_per_chip = 0})

\* n successive calls of pot(), as the list comprehension of
\* MLP_Circuit_Layer.__init__ makes them; draws is the sequence of values randrange
\* returns; acc carries the factory, the pots made, the history records and the
\* number of draws used
RECURSIVE CreatePots(_, _, _, _)
CreatePots(acc, max_weight, n, draws) ==
    IF n = 0 THEN acc
    ELSE LET d == IF acc.factory.pot_counter = 1 THEN draws[acc.used + 1] ELSE 0
             r == factory_pot(acc.factory, max_weight, d)
         IN  CreatePots([factory |-> r.factory,
                         pots |-> Append(acc.pots, r.pot),
                         records |-> Append(acc.records,
                                            [total_resistance |-> r.pot.r_total_ohms,
                                             drew |-> r.drew]),
                         used |-> IF r.drew THEN acc.used + 1 ELSE acc.used],
                        max_weight, n - 1, draws)

----------------------------------------------------------------------------
(* MLP_Circuit_Layer                                                       *)

\* the index pairs <<j, i>> at which update_synapse_weights reads
\* digital_pots[j][i] and synaptic_weights[j][i]
AccessedPairs(L) ==
    {<<j, i>> : j \in 0..(L.neuron_count - 2), i \in 0..(L.inputs_per_neuron - 2)}

\* digital_pots has inputs_per_neuron rows of neuron_count pots each
PotInRange(L, a, b) ==
    a \in 0..(L.inputs_per_neuron - 1) /\ b \in 0..(L.neuron_count - 1)

\* synaptic_weights has neuron_count rows of inputs_per_neuron weights each
WeightInRange(L, a, b) ==
    a \in 0..(L.neuron_count - 1) /\ b \in 0..(L.inputs_per_neuron - 1)

PairInRange(L, q) == PotInRange(L, q[1], q[2]) /\ WeightInRange(L, q[1], q[2])

\* the position of the pair <<j, i>> in the order of the two loops (i outer, j inner)
LoopPosition(L, q) == q[2] * L.neuron_count + q[1]

\* MLP_Circuit_Layer.update_synapse_weights.  The result is the layer and the fault
\* raised, if any: an IndexError leaves the pots set before it and skips the rest.
update_synapse_weights(L) ==
    LET bad == {q \in AccessedPairs(L) : ~PairInRange(L, q)}
        done == {q \in AccessedPairs(L) :
                    \A b \in bad : LoopPosition(L, q) < LoopPosition(L, b)}
        pots == [a \in DOMAIN L.digital_pots |->
                    [b \in DOMAIN L.digital_pots[a] |->
                        IF <<a, b>> \in done
                        THEN set_weight(L.digital_pots[a][b], L.synaptic_weights[a][b])
                        ELSE L.digital_pots[a][b]]]
        r_neg == [a \in DOMAIN pots |-> [b \in DOMAIN pots[a] |-> pots[a][b].r_neg]]
        r_pos == [a \in DOMAIN pots |-> [b \in DOMAIN pots[a] |-> pots[a][b].r_pos]]
    IN  IF bad # {}
        THEN [layer |-> [L EXCEPT !.digital_pots = pots, !.last_updated = done],
              fault |-> "IndexError"]
        ELSE [layer |-> [L EXCEPT !.digital_pots = pots,
                                  !.last_updated = done,
                                  !.synced = TRUE,
                                  \* line 58 assigns r_neg to synapses_r_neg; line 60
                                  \* then assigns the r_pos matrix to both names
                                  !.synapses_r_neg = r_pos,
                                  !.synapses_r_pos = r_pos],
              fault |-> "none"]

\* MLP_Circuit_Layer.__init__ up to the call of update_synapse_weights: pots holds
\* the inputs_per_neuron * neuron_count pots in creation order (i outer, j inner)
NewLayer(layer_number, I, N, max_weight, weights, input_nodes, pots) ==
    [layer_number |-> layer_number,
     inputs_per_neuron |-> I,
     neuron_count |-> N,
     max_weight |-> max_weight,
     synaptic_weights |-> weights,
     input_nodes |-> IF layer_number = 0
                     THEN [x \in 0..(I - 1) |-> <<"Synapse", layer_number, x>>]
                     ELSE input_nodes,
     output_nodes |-> [x \in 0..(N - 1) |-> <<"Neuron", layer_number, x>>],
     digital_pots |-> [i \in 0..(I - 1) |-> [j \in 0..(N - 1) |-> pots[i * N + j + 1]]],
     \* None until update_synapse_weights assigns them: the empty array
     synapses_r_neg |-> <<>>,
     synapses_r_pos |-> <<>>,
     synced |-> FALSE,
     last_updated |-> {}]

\* MLP_Circuit_Layer.create_layer_subcircuit: the synapse lines, in the order the
\* loops emit them (neuron i outer, input j inner); R_in and R_in_inv are the values
\* of the resistors R_in_<s_id> and R_in`_<s_id>
create_layer_subcircuit(L) ==
    [k \in 1..(L.neuron_count * L.inputs_per_neuron) |->
        LET i == (k - 1) \div L.inputs_per_neuron
            j == (k - 1) % L.inputs_per_neuron
        IN  [s_id |-> <<L.layer_number, i, j>>,
             input |-> L.input_nodes[j],
             R_in |-> L.synapses_r_pos[j][i],
             R_in_inv |-> L.synapses_r_neg[j][i]]]

\* one iteration of the loop of MLP_Circuit.initialize_hardware_layers (lines
\* 198-201): MLP_Circuit_Layer(model_layer, input_nodes, idx, ...) is constructed,
\* which creates the pots and calls update_synapse_weights, and is appended
append_layer(f, layers, I, N, max_weight, weights, draws) ==
    LET made == CreatePots([factory |-> f, pots |-> <<>>, records |-> <<>>, used |-> 0],
                           max_weight, I * N, draws)
        idx == Len(layers)
        input_nodes == IF idx = 0 THEN None ELSE layers[idx].output_nodes
        r == update_synapse_weights(
                 NewLayer(idx, I, N, max_weight, weights, input_nodes, made.pots))
    IN  [factory |-> made.factory,
         records |-> made.records,
         layers |-> IF r.fault = "none" THEN Append(layers, r.layer) ELSE layers,
         fault |-> r.fault]

----------------------------------------------------------------------------
(* Values of the variables a specification does not use.                   *)

NoPot == [r_total_ohms |-> 0, tap_count |-> 0, max_weight |-> 0,
          wiper_position |-> 0, r_neg |-> 0, r_pos |-> 0]

NoPrev == [weight |-> 0, r_neg |-> 0, r_pos |-> 0]

IdlePot == pot = NoPot /\ weight = 0 /\ prev = NoPrev

----------------------------------------------------------------------------
(* SpecPot: one DigitalPot under any sequence of set_weight calls.         *)

\* a caller's pot.set_weight(w): prev remembers the pot as it was
SetWeight(w) ==
    /\ prev' = [weight |-> weight, r_neg |-> pot.r_neg, r_pos |-> pot.r_pos]
    /\ pot' = set_weight(pot, w)
    /\ weight' = w
    /\ UNCHANGED <<circuitVars, thinkVars, fault>>

----------------------------------------------------------------------------
(* SpecCircuit: construction of the layers of one MLP_Circuit, then weight *)
(* changes by the network's owner and update_synapse_weights calls.        *)

\* the weight matrix [neuron][input] a layer is constructed from
ConstantWeights(I, N, w) == [n \in 0..(N - 1) |-> [i \in 0..(I - 1) |-> w]]

\* inputs_per_neuron of the next layer: the neuron_count of the layer before it
NextInputs == IF hardware_layers = <<>> THEN 1..MaxDim
              ELSE {hardware_layers[Len(hardware_layers)].neuron_count}

AppendLayer(I, N, w, draws) ==
    /\ pc = "constructing"
    /\ fault = "none"
    /\ Len(hardware_layers) < MaxLayers
    /\ Len(created) + I * N <= MaxPots
    /\ LET r == append_layer(digital_pot_factory, hardware_layers, I, N,
                             LayerMaxWeight, ConstantWeights(I, N, w), draws)
       IN  /\ digital_pot_factory' = r.factory
           /\ hardware_layers' = r.layers
           /\ created' = created \o r.records
           /\ fault' = r.fault
    /\ UNCHANGED <<potVars, trained, thinkVars>>

\* the end of MLP_Circuit.__init__: lines 203-204 set the input nodes of every
\* layer but the first to the output nodes of the layer before it
FinishConstruction ==
    /\ pc = "constructing"
    /\ fault = "none"
    /\ hardware_layers # <<>>
    /\ hardware_layers' =
           [k \in 1..Len(hardware_layers) |->
               IF k = 1 THEN hardware_layers[k]
               ELSE [hardware_layers[k] EXCEPT
                        !.input_nodes = hardware_layers[k - 1].output_nodes]]
    /\ pc' = "idle"
    /\ UNCHANGED <<potVars, digital_pot_factory, created, trained, fault,
                   attempts, success, outputs, returned, log, history,
                   input_sources, netlist>>

\* the network's owner changes one weight of layer k (training)
Train(k, n, i, w) ==
    /\ pc = "idle"
    /\ fault = "none"
    /\ trained < MaxTrainSteps
    /\ hardware_layers[k].synaptic_weights[n][i] # w
    /\ hardware_layers' = [hardware_layers EXCEPT ![k].synaptic_weights[n][i] = w,
                                                  ![k].synced = FALSE]
    /\ trained' = trained + 1
    /\ UNCHANGED <<potVars, digital_pot_factory, created, fault, thinkVars>>

\* a call of update_synapse_weights on layer k
UpdateSynapseWeights(k) ==
    /\ pc = "idle"
    /\ fault = "none"
    /\ LET r == update_synapse_weights(hardware_layers[k])
       IN  /\ hardware_layers' = [hardware_layers EXCEPT ![k] = r.layer]
           /\ fault' = r.fault
    /\ UNCHANGED <<potVars, digital_pot_factory, created, trained, thinkVars>>

IdleThink ==
    /\ attempts = 0 /\ success = FALSE /\ outputs = None /\ returned = None
    /\ log = <<>> /\ history = <<>> /\ input_sources = <<>>
    /\ netlist = [subcircuits |-> <<>>, sources |-> <<>>, measurements |-> <<>>]

InitCircuit ==
    /\ IdlePot
    /\ \E k \in PotsPerChipChoices :
           digital_pot_factory =
               DigitalPotFactory(r_total_ohms, pot_tap_count, k, pot_tolerance_pct)
    /\ hardware_layers = <<>>
    /\ created = <<>>
    /\ trained = 0
    /\ fault = "none"
    /\ pc = "constructing"
    /\ IdleThink

NextCircuit ==
    \/ \E I \in NextInputs, N \in 1..MaxDim, w \in InitialWeights :
          \E draws \in [1..NeededDraws(digital_pot_factory, I * N) -> Draws] :
             AppendLayer(I, N, w, draws)
    \/ FinishConstruction
    \/ \E k \in 1..Len(hardware_layers) :
          \E n \in 0..(hardware_layers[k].neuron_count - 1),
             i \in 0..(hardware_layers[k].inputs_per_neuron - 1),
             w \in LayerWeights : Train(k, n, i, w)
    \/ \E k \in 1..Len(hardware_layers) : UpdateSynapseWeights(k)

SpecCircuit == InitCircuit /\ [][NextCircuit]_vars

----------------------------------------------------------------------------
(* MLP_Circuit: netlist, simulation, result parsing                        *)

\* MLP_Circuit.update_input_sources: inputs in tenths, voltages in tenths of a volt,
\* the sources in hundredths of a volt
update_input_sources(inputs) ==
    LET v_in_range == v_in_max - v_in_min
        v_in_center2 == v_in_range + 2 * v_in_min
    IN  [x \in DOMAIN inputs |-> (inputs[x] * v_in_range + 10 * v_in_center2) \div 2]

\* MLP_Circuit.create_netlist: what the file holds that depends on the state: the
\* synapse lines of every layer, the input sources (with their inverses) and the
\* measured nodes, in layer order and node order
create_netlist(layers, sources) ==
    [subcircuits |-> [k \in DOMAIN layers |-> create_layer_subcircuit(layers[k])],
     sources |-> [x \in DOMAIN sources |->
                     [node |-> layers[1].input_nodes[x - 1],
                      voltage |-> sources[x], inverse |-> sources[x] * (-1)]],
     measurements |-> [k \in DOMAIN layers |-> layers[k].output_nodes]]

\* run_simulation with subprocess.call in place of subprocess.check_call
run_simulation_unchecked(exit_status) == "none"

\* MLP_Circuit.run_simulation: subprocess.check_call raises CalledProcessError
\* when the simulator exits with a non-zero status
run_simulation(exit_status) ==
    IF exit_status # 0 THEN "CalledProcessError" ELSE "none"

\* the normalization of line 345, as the fraction <<numerator, denominator>>
Normalize(voltages) ==
    [x \in DOMAIN voltages |-> <<voltages[x] + v_in_max, 2 * v_in_max>>]

\* the inner loop of get_outputs skipping a node whose measurement is missing
RECURSIVE ParseNodes_skip(_, _, _, _)
ParseNodes_skip(nodes, x, result, output_voltages) ==
    IF x \notin DOMAIN nodes THEN <<TRUE, output_voltages>>
    ELSE IF nodes[x] \notin DOMAIN result
         THEN ParseNodes_skip(nodes, x + 1, result, output_voltages)
         ELSE ParseNodes_skip(nodes, x + 1, result,
                              Append(output_voltages, result[nodes[x]]))

\* the inner loop of get_outputs (lines 333-342) from node x on: the search of the
\* pattern for a node in the text is the lookup of the node in result, a function
\* from the nodes the log has a measurement of to the voltage measured
RECURSIVE ParseNodes(_, _, _, _)
ParseNodes(nodes, x, result, output_voltages) ==
    IF x \notin DOMAIN nodes THEN <<TRUE, output_voltages>>
    ELSE IF nodes[x] \notin DOMAIN result
         THEN <<FALSE, None>>
         ELSE ParseNodes(nodes, x + 1, result,
                         Append(output_voltages, result[nodes[x]]))

\* the outer loop of get_outputs (lines 330-345) from layer k on
RECURSIVE ParseLayers(_, _, _, _)
ParseLayers(layers, k, result, outs) ==
    IF k > Len(layers) THEN <<TRUE, Some(outs)>>
    ELSE LET r == ParseNodes(layers[k].output_nodes, 0, result, <<>>)
         IN  IF ~r[1] THEN <<FALSE, None>>
             ELSE ParseLayers(layers, k + 1, result, Append(outs, Normalize(r[2])))

\* MLP_Circuit.get_outputs
get_outputs(layers, result) == ParseLayers(layers, 1, result, <<>>)

\* the loop condition of think without the test of success
LoopContinues_ignoresuccess(succ, att) == att > 0

\* the loop condition of think with one attempt too many
LoopContinues_offbyone(succ, att) == succ = FALSE /\ att >= 0

\* the loop condition of think (line 368)
LoopContinues(succ, att) == succ = FALSE /\ att > 0

----------------------------------------------------------------------------
(* SpecThink: calls of think on a constructed circuit.                     *)

\* the output nodes of all layers
AllNodes(layers) ==
    UNION {{layers[k].output_nodes[x] : x \in DOMAIN layers[k].output_nodes} :
              k \in DOMAIN layers}

\* the log has a measurement of every output node of every layer
LogComplete(layers, result) == AllNodes(layers) \subseteq DOMAIN result

\* lines 359-367 of think
Think(inputs) ==
    /\ pc \in {"idle", "done"}
    /\ fault = "none"
    /\ LET rs == [k \in DOMAIN hardware_layers |->
                     update_synapse_weights(hardware_layers[k])]
           layers == [k \in DOMAIN hardware_layers |-> rs[k].layer]
           sources == update_input_sources(inputs)
       IN  /\ input_sources' = sources
           /\ hardware_layers' = layers
           /\ netlist' = create_netlist(layers, sources)
    /\ success' = FALSE
    /\ attempts' = think_attempts
    /\ outputs' = None
    /\ returned' = None
    /\ history' = <<>>
    /\ pc' = "while"
    /\ UNCHANGED <<potVars, digital_pot_factory, created, trained, fault, log>>

\* line 369: the simulator runs, exits with exit_status and leaves the log result
RunSimulation(exit_status, result) ==
    /\ pc = "while"
    /\ LoopContinues(success, attempts)
    /\ history' = Append(history,
                          [exit_status |-> exit_status,
                           complete |-> LogComplete(hardware_layers, result)])
    /\ log' = result
    /\ fault' = run_simulation(exit_status)
    /\ pc' = IF fault' = "none" THEN "parse" ELSE "raised"
    /\ UNCHANGED <<potVars, circuitVars, attempts, success, outputs, returned,
                   input_sources, netlist>>

\* lines 370-371
GetOutputs ==
    /\ pc = "parse"
    /\ LET r == get_outputs(hardware_layers, log)
       IN  success' = r[1] /\ outputs' = r[2]
    /\ attempts' = attempts - 1
    /\ pc' = "while"
    /\ UNCHANGED <<potVars, circuitVars, fault, returned, log, history,
                   input_sources, netlist>>

\* lines 373-375: the loop is left and outputs is returned
Return ==
    /\ pc = "while"
    /\ ~LoopContinues(success, attempts)
    /\ returned' = outputs
    /\ pc' = "done"
    /\ UNCHANGED <<potVars, circuitVars, fault, attempts, success, outputs, log,
                   history, input_sources, netlist>>

\* MLP_Circuit.__init__ on a network of the given shape: the layers are appended in
\* order, every chip drawing the resistance draw
RECURSIVE BuildLayers(_, _, _, _, _)
BuildLayers(acc, I, counts, w, draw) ==
    IF counts = <<>> THEN acc
    ELSE LET N == Head(counts)
             r == append_layer(acc.factory, acc.layers, I, N, LayerMaxWeight,
                               ConstantWeights(I, N, w),
                               [d \in 1..NeededDraws(acc.factory, I * N) |-> draw])
         IN  BuildLayers([factory |-> r.factory, layers |-> r.layers,
                          records |-> acc.records \o r.records,
                          fault |-> IF acc.fault = "none" THEN r.fault ELSE acc.fault],
                         N, Tail(counts), w, draw)

InitThink ==
    /\ IdlePot
    /\ \E shape \in ThinkShapes, w \in LayerWeights, draw \in Draws :
          LET built == BuildLayers(
                  [factory |-> DigitalPotFactory(r_total_ohms, pot_tap_count,
                                                 pots_per_chip, pot_tolerance_pct),
                   layers |-> <<>>, records |-> <<>>, fault |-> "none"],
                  shape[1], shape[2], w, draw)
          IN  /\ built.fault = "none"
              /\ digital_pot_factory = built.factory
              /\ hardware_layers = built.layers
              /\ created = built.records
    /\ trained = 0
    /\ fault = "none"
    /\ pc = "idle"
    /\ IdleThink

NextThink ==
    \/ \E inputs \in [1..hardware_layers[1].inputs_per_neuron -> InputValues] :
          Think(inputs)
    \/ \E exit_status \in {0, 1} :
          \E measured \in SUBSET AllNodes(hardware_layers) :
             \E result \in [measured -> LogVoltages] :
                RunSimulation(exit_status, result)
    \/ GetOutputs
    \/ Return

SpecThink == InitThink /\ [][NextThink]_vars

----------------------------------------------------------------------------
(* SpecPot                                                                 *)

InitPot ==
    /\ \E r \in PotDraws, m \in MaxWeightChoices :
           pot = DigitalPot(r, pot_tap_count, m)
    /\ weight = 0
    /\ prev = [weight |-> 0, r_neg |-> pot.r_neg, r_pos |-> pot.r_pos]
    /\ digital_pot_factory =
           DigitalPotFactory(r_total_ohms, pot_tap_count, pots_per_chip, pot_tolerance_pct)
    /\ hardware_layers = <<>>
    /\ created = <<>>
    /\ trained = 0
    /\ fault = "none"
    /\ pc = "idle"
    /\ IdleThink

NextPot == \E w \in Weights : SetWeight(w)

SpecPot == InitPot /\ [][NextPot]_vars

----------------------------------------------------------------------------
(* Properties of DigitalPot, checked under SpecPot.                        *)

Abs(x) == IF x >= 0 THEN x ELSE -x

InRange(w) == Abs(w) <= pot.max_weight

\* C3: after construction and after any sequence of set_weight calls with any
\* weights, the wiper position is an integer in [1, tap_count-1], r_pos >= 0,
\* r_neg >= 0 and r_pos + r_neg = total_resistance (resistances are numerators
\* over tap_count, so the total is tap_count * r_total_ohms).
C3_PotInvariant ==
    /\ pot.wiper_position \in 1..(pot.tap_count - 1)
    /\ pot.r_pos >= 0
    /\ pot.r_neg >= 0
    /\ pot.r_pos + pot.r_neg = pot.tap_count * pot.r_total_ohms

\* a weight above max_weight set right after a weight below -max_weight
C3_Witness ==
    /\ weight > pot.max_weight
    /\ prev.weight < -pot.max_weight
    /\ pot.wiper_position = pot.tap_count - 1
    /\ prev.r_neg = pot.r_total_ohms

\* C4 as stated: for weights w1 <= w2 within [-max_weight, max_weight], r_pos after
\* set_weight(w2) is greater than or equal to r_pos after set_weight(w1).
C4_Original ==
    (InRange(prev.weight) /\ InRange(weight) /\ prev.weight <= weight)
        => prev.r_pos <= pot.r_pos

\* C4 amended: for weights w1 <= w2 within [-max_weight, max_weight], r_pos after
\* set_weight(w2) is less than or equal to r_pos after set_weight(w1), and r_neg is
\* greater than or equal: r_pos is non-increasing and r_neg non-decreasing in w.
C4_RPosNonIncreasing ==
    (InRange(prev.weight) /\ InRange(weight) /\ prev.weight <= weight)
        => (prev.r_pos >= pot.r_pos /\ prev.r_neg <= pot.r_neg)

\* two weights in range, the second larger, with a strictly smaller r_pos
C4_Witness ==
    /\ InRange(prev.weight) /\ InRange(weight)
    /\ prev.weight < weight
    /\ prev.r_pos > pot.r_pos

\* the integers nearest to num/den
NearestTaps(num, den) ==
    {t \in (-2 * pot.tap_count)..(3 * pot.tap_count) : 2 * Abs(t * den - num) <= den}

Clamp(t) == Min(pot.tap_count - 1, Max(1, t))

\* C9 as stated: the wiper position is the scaled position
\* (weight/max_weight + 1) / 2 * tap_count rounded to the nearest tap, then clamped
\* to [1, tap_count-1]; r_neg = wiper/tap_count * total, r_pos = total - r_neg.
C9_Original ==
    LET s == ScaledPosition(pot, weight)
    IN  /\ \E t \in NearestTaps(s[1], s[2]) : pot.wiper_position = Clamp(t)
        /\ pot.r_neg = pot.wiper_position * pot.r_total_ohms
        /\ pot.r_pos = pot.tap_count * pot.r_total_ohms - pot.r_neg

\* C9 amended: the scaled position is truncated toward zero, not rounded, before
\* it is clamped: the wiper is 1 when the scaled position is below 2, tap_count-1
\* when it is at least tap_count-1, and otherwise the largest integer not above it;
\* r_neg = wiper/tap_count * total, r_pos = total - r_neg; a weight at or beyond
\* +max_weight gives wiper tap_count-1 and one at or beyond -max_weight gives wiper
\* 1, the values of weight = +max_weight and -max_weight.
C9_WiperTruncated ==
    LET s == ScaledPosition(pot, weight)
        num == s[1]
        den == s[2]
        t == pot.wiper_position
    IN  /\ num < 2 * den => t = 1
        /\ num >= (pot.tap_count - 1) * den => t = pot.tap_count - 1
        /\ (num >= 2 * den /\ num < (pot.tap_count - 1) * den)
               => (t * den <= num /\ num < (t + 1) * den)
        /\ weight >= pot.max_weight => t = pot.tap_count - 1
        /\ weight <= -pot.max_weight => t = 1
        /\ pot.r_neg = t * pot.r_total_ohms
        /\ pot.r_pos = pot.tap_count * pot.r_total_ohms - pot.r_neg

\* a weight in range whose scaled position truncates and rounds to different taps
C9_Witness ==
    LET s == ScaledPosition(pot, weight)
    IN  /\ InRange(weight)
        /\ pot.wiper_position = TruncDiv(s[1], s[2])
        /\ RoundDiv(s[1], s[2]) = pot.wiper_position + 1
        /\ pot.wiper_position + 1 < pot.tap_count - 1

----------------------------------------------------------------------------
(* Properties of DigitalPotFactory and MLP_Circuit_Layer, checked under    *)
(* SpecCircuit.                                                            *)

\* the number of pots of the layers before layer k
RECURSIVE PotsBefore(_)
PotsBefore(k) ==
    IF k = 1 THEN 0
    ELSE PotsBefore(k - 1)
         + hardware_layers[k - 1].inputs_per_neuron * hardware_layers[k - 1].neuron_count

\* C5: the slot counter stays within 1..pots_per_chip; a new chip resistance is
\* drawn exactly when the counter is at its first position, i.e. for the pots
\* numbered m*k+1 in creation order; the pots numbered m*k+1 .. m*k+k all carry the
\* identical total_resistance, across layers too, and it lies within
\* [total*(1-tol), total*(1+tol)].
C5_ChipGrouping ==
    LET f == digital_pot_factory
        K == f.pots_per_chip
    IN  /\ f.pot_counter \in 1..K
        /\ f.pot_counter = (Len(created) % K) + 1
        /\ \A a \in DOMAIN created : created[a].drew <=> ((a - 1) % K = 0)
        /\ \A a, b \in DOMAIN created :
              ((a - 1) \div K = (b - 1) \div K)
                  => created[a].total_resistance = created[b].total_resistance
        /\ \A a \in DOMAIN created :
              /\ 100 * created[a].total_resistance >= f.r_total_ohms * (100 - f.tolerance_pct)
              /\ 100 * created[a].total_resistance <= f.r_total_ohms * (100 + f.tolerance_pct)
        /\ \A k \in DOMAIN hardware_layers :
              LET L == hardware_layers[k]
              IN  \A i \in 0..(L.inputs_per_neuron - 1), j \in 0..(L.neuron_count - 1) :
                     L.digital_pots[i][j].r_total_ohms =
                         created[PotsBefore(k) + i * L.neuron_count + j + 1].total_resistance

\* two layers whose pots share a chip, and two chips of different resistance
C5_Witness ==
    LET K == digital_pot_factory.pots_per_chip
    IN  /\ Len(hardware_layers) = 2
        /\ PotsBefore(2) % K # 0
        /\ Len(created) > K
        /\ created[K].total_resistance # created[K + 1].total_resistance
        /\ hardware_layers[2].digital_pots[0][0].r_total_ohms =
               created[PotsBefore(2)].total_resistance

\* C7: after update_synapse_weights, for every input index i in
\* 0..inputs_per_neuron-2 and neuron index n in 0..neuron_count-2, the pot
\* digital_pots[i][n] holds the resistances of the weight synaptic_weights[n][i].
C7_Claim ==
    \A k \in DOMAIN hardware_layers :
       LET L == hardware_layers[k]
       IN  L.synced =>
              \A i \in 0..(L.inputs_per_neuron - 2), n \in 0..(L.neuron_count - 2) :
                 LET p == L.digital_pots[i][n]
                     q == set_weight(p, L.synaptic_weights[n][i])
                 IN  p.r_neg = q.r_neg /\ p.r_pos = q.r_pos

\* C8: after update_synapse_weights, synapses_r_pos[i][n] is the pot's r_pos and
\* synapses_r_neg[i][n] the pot's r_neg for every (input i, neuron n), so the
\* resistors R_in and R_in` of each synapse emitted by create_layer_subcircuit carry
\* the pot's r_pos and r_neg and sum to its total resistance.
C8_Claim ==
    \A k \in DOMAIN hardware_layers :
       LET L == hardware_layers[k]
           lines == create_layer_subcircuit(L)
       IN  /\ \A i \in 0..(L.inputs_per_neuron - 1), n \in 0..(L.neuron_count - 1) :
                 /\ L.synapses_r_pos[i][n] = L.digital_pots[i][n].r_pos
                 /\ L.synapses_r_neg[i][n] = L.digital_pots[i][n].r_neg
           /\ \A x \in DOMAIN lines :
                 LET p == L.digital_pots[lines[x].s_id[3]][lines[x].s_id[2]]
                 IN  /\ lines[x].R_in = p.r_pos
                     /\ lines[x].R_in_inv = p.r_neg
                     /\ lines[x].R_in + lines[x].R_in_inv = p.tap_count * p.r_total_ohms

\* C10: for every layer shape with inputs_per_neuron >= 1 and neuron_count >= 1,
\* layer construction and every later update_synapse_weights call index the pots
\* and the weights in range: no IndexError is raised.
C10_Claim == fault # "IndexError"

----------------------------------------------------------------------------
(* Properties of MLP_Circuit.think, checked under SpecThink.               *)

Last(seq) == seq[Len(seq)]

Terminated == pc \in {"done", "raised"}

\* C1 as stated: the simulator is invoked at least once and at most 5 times in one
\* think call, never again after an attempt whose parse succeeded, and if the log
\* lacks a required node on every attempt the call makes exactly 5 attempts and
\* returns None without raising.
C1_Original ==
    /\ Len(history) <= think_attempts
    /\ Terminated => Len(history) >= 1
    /\ \A a \in 1..(Len(history) - 1) :
          ~(history[a].exit_status = 0 /\ history[a].complete)
    /\ (Terminated /\ \A a \in DOMAIN history : ~history[a].complete)
          => /\ Len(history) = think_attempts
             /\ pc = "done"
             /\ returned = None
             /\ fault = "none"

\* C1 amended: as stated, but the exhaustion case requires the simulator to exit
\* with status 0 on every attempt: then, if the log lacks a required node on every
\* attempt, the call makes exactly 5 attempts and returns None without raising.
C1_RetryPolicy ==
    /\ Len(history) <= think_attempts
    /\ Terminated => Len(history) >= 1
    /\ \A a \in 1..(Len(history) - 1) :
          ~(history[a].exit_status = 0 /\ history[a].complete)
    /\ (Terminated /\ \A a \in DOMAIN history :
                         history[a].exit_status = 0 /\ ~history[a].complete)
          => /\ Len(history) = think_attempts
             /\ pc = "done"
             /\ returned = None
             /\ fault = "none"

\* think has returned None after 5 attempts, each with exit status 0 and a log
\* lacking a node
C1_Witness ==
    /\ pc = "done"
    /\ Len(history) = think_attempts
    /\ \A a \in DOMAIN history : history[a].exit_status = 0 /\ ~history[a].complete
    /\ returned = None

\* the state right after get_outputs has parsed log, or any later state of the call
Parsed == pc \in {"while", "done"} /\ history # <<>>

\* C2: get_outputs is all-or-nothing: if any output node of any layer has no
\* measurement in the log it reports failure with no data; only when every output
\* node of every layer has one does it report success, with exactly one normalized
\* value per output node per layer, in layer order and node order.
C2_AllOrNothing ==
    Parsed =>
       IF LogComplete(hardware_layers, log)
       THEN /\ success = TRUE
            /\ outputs.none = FALSE
            /\ DOMAIN outputs.data = DOMAIN hardware_layers
            /\ \A k \in DOMAIN hardware_layers :
                  LET L == hardware_layers[k]
                  IN  /\ DOMAIN outputs.data[k] = 1..L.neuron_count
                      /\ \A x \in 0..(L.neuron_count - 1) :
                            outputs.data[k][x + 1] =
                                <<log[<<"Neuron", k - 1, x>>] + v_in_max, 2 * v_in_max>>
       ELSE success = FALSE /\ outputs = None

\* the log has every node of the first layer and lacks one of the second: the
\* parse has failed with no data
C2_Witness ==
    /\ Parsed
    /\ Len(hardware_layers) = 2
    /\ \A x \in DOMAIN hardware_layers[1].output_nodes :
          hardware_layers[1].output_nodes[x] \in DOMAIN log
    /\ hardware_layers[2].neuron_count = 2
    /\ hardware_layers[2].output_nodes[0] \in DOMAIN log
    /\ hardware_layers[2].output_nodes[1] \notin DOMAIN log
    /\ success = FALSE
    /\ outputs = None

\* C6 as stated: the exit status of the simulator is not inspected: an attempt in
\* which the simulator exits with a non-zero status but the log holds every
\* expected output node does not abort the call.
C6_Original ==
    (history # <<>> /\ Last(history).exit_status # 0 /\ Last(history).complete)
        => (fault = "none" /\ pc # "raised")

\* C6 amended: the exit status is inspected by run_simulation: an attempt in which
\* the simulator exits with a non-zero status aborts the call with
\* CalledProcessError before the log is parsed, whatever the log holds, and is the
\* call's last attempt; when the simulator exits with status 0 the success of the
\* attempt is determined by the parse alone.
C6_ExitStatusChecked ==
    /\ \A a \in DOMAIN history :
          history[a].exit_status # 0
              => /\ a = Len(history)
                 /\ pc = "raised"
                 /\ fault = "CalledProcessError"
                 /\ success = FALSE
                 /\ returned = None
    /\ pc = "raised" => (history # <<>> /\ Last(history).exit_status # 0)
    /\ Parsed => (success <=> Last(history).complete)

\* the simulator has exited with a non-zero status leaving a complete log, and the
\* call is aborted
C6_Witness ==
    /\ pc = "raised"
    /\ fault = "CalledProcessError"
    /\ history # <<>>
    /\ Last(history).exit_status # 0
    /\ Last(history).complete

====
